---- MODULE Spec2Model ----
(***************************************************************************)
(* WebSocketService (src/src/services/api.ts): the singleton that owns the *)
(* push-channel socket, its reconnect timer and its event subscribers.     *)
(* The browser is the environment: it opens, fails and closes the sockets  *)
(* the service created and fires the timers the service scheduled.  Each   *)
(* handler of the service is an operator from service state to service     *)
(* state; each action of the model runs one task of the event loop.        *)
(*                                                                         *)
(* Assistant (src/src/components/Assistant.tsx): the chat component, which *)
(* opens its own WebSocket, joins rooms on it and keeps the chat messages. *)
(* It does not use the service; the two are modelled side by side.         *)
(***************************************************************************)
EXTENDS Integers, Sequences, FiniteSets, TLC

VARIABLES
  ws,                 \* this.ws: the socket the service holds, Null when none
  readyState,         \* readyState of the sockets the service created, by
                      \* slot; a slot never used reads CLOSED
  isConnected,        \* this.isConnected
  isConnecting,       \* this.isConnecting
  reconnectTimeout,   \* this.reconnectTimeout: a timer handle, Null when none
  timers,             \* the browser's pending timers: {[id, delay]}
  reconnectAttempts,  \* this.reconnectAttempts
  listeners,          \* EventEmitter: category -> callbacks in registration order
  joined,             \* rooms joinRoom() was called with so far
  deferred,           \* rooms joinRoom() was called with while no socket was open,
                      \* in first-call order, since the last open
  intentional,        \* disconnect() was called and connect() not called since
  terminalErrors,     \* 'Max reconnection attempts reached' events since the
                      \* last open or disconnect()
  last,               \* the task that ran last: its inputs, the state it
                      \* started from and what it sent, emitted and created
  phase,              \* Assistant: "rendered" before the connection effect has
                      \* run, then "mounted", then "unmounted"
  socketRef,          \* socketRef.current: the socket the component refers to
  uiSockets,          \* the sockets the component created, by slot: readyState
                      \* and the activeRooms its listeners closed over
  uiTimers,           \* pending setTimeout(connectWebSocket, 3000), counted by
                      \* the activeRooms that connectWebSocket closed over
  activeRooms,        \* React state activeRooms
  isSocketConnected,  \* React state isSocketConnected
  messages,           \* React state messages
  isLoading,          \* React state isLoading
  uiLast              \* the task of the component that ran last

assistantVars == <<phase, socketRef, uiSockets, uiTimers, activeRooms,
                   isSocketConnected, messages, isLoading, uiLast>>

vars == <<ws, readyState, isConnected, isConnecting, reconnectTimeout, timers,
          reconnectAttempts, listeners, joined, deferred, intentional,
          terminalErrors, last, phase, socketRef, uiSockets, uiTimers,
          activeRooms, isSocketConnected, messages, isLoading, uiLast>>

----------------------------------------------------------------------------
(* Bounds of the model *)

MaxSockets == 2        \* sockets that may be unclosed at the same time
MaxSubscribers == 1    \* callbacks registered over all categories
MaxCallbacks == 2      \* callbacks of the one category subscribed to, where
                       \* the subscriptions are drawn at the start
MaxMessages == 4       \* chat messages the Assistant holds

(* Program constants *)

maxReconnectAttempts == 5
NormalClosure == 1000
BackoffBase == 1000
BackoffCap == 30000

Null == 0
Sockets == 1..MaxSockets
Rooms == {"job-42", "job-7"}
Categories == {"connected", "disconnected", "error", "message"}
CallbackKinds == {"ok", "throws"}
CloseCodes == {1000, 1005, 1006}   \* normal, no status received, abnormal

----------------------------------------------------------------------------
(* Text frames are sequences of tokens: single characters of the Socket.IO *)
(* markers, and the punctuation and string literals JSON.stringify writes. *)

Ch(c) == [k |-> "char", v |-> c]
Punct(c) == [k |-> "punct", v |-> c]
Str(s) == [k |-> "string", v |-> s]

UpgradePacket == <<Ch("4"), Ch("0")>>
PongPacket == <<Ch("3")>>
DisconnectPacket ==
  <<Punct("{"), Str("type"), Punct(":"), Str("41"), Punct("}")>>
JoinPacket(roomId) ==
  <<Punct("{"), Str("type"), Punct(":"), Str("42"), Punct(","),
    Str("data"), Punct(":"), Punct("["), Str("join"), Punct(","),
    Punct("{"), Str("room_id"), Punct(":"), Str(roomId), Punct("}"),
    Punct("]"), Punct("}")>>

PingPacket == <<Ch("2")>>
EventPrefix == <<Ch("4"), Ch("2")>>

(* A Socket.IO event packet as the server writes it: 42["name",payload] *)
EventPacket(name, payload) ==
  EventPrefix \o <<Punct("["), Str(name), Punct(",")>> \o payload
  \o <<Punct("]")>>

(* the JSON text of {"room_id":"<roomId>"} *)
RoomPayload(roomId) ==
  <<Punct("{"), Str("room_id"), Punct(":"), Str(roomId), Punct("}")>>

(* Frames the server may deliver *)
WellFormedFrames ==
  {PingPacket, PongPacket, UpgradePacket}
  \cup {EventPacket("status_update", RoomPayload(r)) : r \in Rooms}
  \cup {EventPacket("job_done", RoomPayload(r)) : r \in Rooms}

MalformedFrames ==
  { EventPrefix,                                            \* 42
    EventPrefix \o <<Punct("["), Str("status_update"), Punct(",")>>,
                                                            \* 42["status_update",
    EventPrefix \o <<Punct("{"), Str("status_update"), Punct(":"),
                     Str("done"), Punct("}")>>,             \* 42{"status_update":"done"}
    EventPrefix \o <<Ch("7")>>,                             \* 427
    EventPrefix \o <<Str("status_update")>>,                \* 42"status_update"
    EventPrefix \o <<Punct("["), Punct("]")>>,              \* 42[]
    EventPrefix \o <<Punct("["), Str("status_update"), Punct("]")>> }
                                                            \* 42["status_update"]

InboundFrames == WellFormedFrames \cup MalformedFrames

----------------------------------------------------------------------------
(* JSON.parse on token sequences.  ValueEnd(t, i) is the index after the   *)
(* JSON value that starts at t[i], and 0 when no value starts there.       *)

Digits == {"0", "1", "2", "3", "4", "5", "6", "7", "8", "9"}

RECURSIVE NumberEnd(_, _)
NumberEnd(t, i) ==
  IF i <= Len(t) /\ t[i].k = "char" /\ t[i].v \in Digits
  THEN NumberEnd(t, i + 1) ELSE i

RECURSIVE ValueEnd(_, _)
RECURSIVE ElementsEnd(_, _)
RECURSIVE MembersEnd(_, _)

ValueEnd(t, i) ==
  IF i > Len(t) THEN 0
  ELSE IF t[i].k = "string" THEN i + 1
  ELSE IF t[i].k = "char"
       THEN IF t[i].v \in Digits THEN NumberEnd(t, i) ELSE 0
  ELSE IF t[i] = Punct("[")
       THEN IF i + 1 <= Len(t) /\ t[i + 1] = Punct("]") THEN i + 2
            ELSE ElementsEnd(t, i + 1)
  ELSE IF t[i] = Punct("{")
       THEN IF i + 1 <= Len(t) /\ t[i + 1] = Punct("}") THEN i + 2
            ELSE MembersEnd(t, i + 1)
  ELSE 0

ElementsEnd(t, i) ==
  LET j == ValueEnd(t, i)
  IN IF j = 0 \/ j > Len(t) THEN 0
     ELSE IF t[j] = Punct(",") THEN ElementsEnd(t, j + 1)
     ELSE IF t[j] = Punct("]") THEN j + 1
     ELSE 0

MembersEnd(t, i) ==
  IF i + 1 > Len(t) \/ t[i].k # "string" \/ t[i + 1] # Punct(":") THEN 0
  ELSE LET j == ValueEnd(t, i + 2)
       IN IF j = 0 \/ j > Len(t) THEN 0
          ELSE IF t[j] = Punct(",") THEN MembersEnd(t, j + 1)
          ELSE IF t[j] = Punct("}") THEN j + 1
          ELSE 0

(* JSON.parse(t) returns a value, and otherwise throws a SyntaxError *)
Parses(t) == ValueEnd(t, 1) = Len(t) + 1

(* the elements of the array whose first element starts at t[i] *)
RECURSIVE ElementsFrom(_, _)
ElementsFrom(t, i) ==
  IF t[i] = Punct("]") THEN <<>>
  ELSE LET j == ValueEnd(t, i)
       IN <<SubSeq(t, i, j - 1)>>
          \o (IF t[j] = Punct(",") THEN ElementsFrom(t, j + 1) ELSE <<>>)

(* const [eventName, data] = value: an array gives its first two elements, *)
(* undefined (the empty text) where it has none; a string gives its first  *)
(* two characters, which are no event name; any other value is not         *)
(* iterable and the destructuring throws a TypeError                       *)
Iterable(t) == t[1] = Punct("[") \/ t[1].k = "string"

Destructured(t) ==
  LET es == IF t[1] = Punct("[") THEN ElementsFrom(t, 2) ELSE <<>>
  IN [eventName |-> IF Len(es) >= 1 THEN es[1] ELSE <<>>,
      data |-> IF Len(es) >= 2 THEN es[2] ELSE <<>>]

StartsWith(t, prefix) ==
  Len(t) >= Len(prefix) /\ SubSeq(t, 1, Len(prefix)) = prefix

----------------------------------------------------------------------------
(* The service object as a record, with the outputs of the running task *)

Service ==
  [ws |-> ws, readyState |-> readyState, isConnected |-> isConnected,
   isConnecting |-> isConnecting, reconnectTimeout |-> reconnectTimeout,
   timers |-> timers, reconnectAttempts |-> reconnectAttempts,
   sent |-> <<>>, emitted |-> <<>>, thrown |-> FALSE,
   created |-> FALSE, scheduled |-> 0, called |-> "no"]

Min(a, b) == IF a <= b THEN a ELSE b

RECURSIVE Pow2(_)
Pow2(n) == IF n = 0 THEN 1 ELSE 2 * Pow2(n - 1)

Live(rs) == {s \in DOMAIN rs : rs[s] \in {"CONNECTING", "OPEN"}}
FreeSockets(rs) == {s \in DOMAIN rs : rs[s] = "CLOSED"}
TimerIds(ts) == {t.id : t \in ts}

(* WebSocket.send: throws InvalidStateError while CONNECTING, transmits     *)
(* while OPEN, and drops the data once the socket is CLOSING or CLOSED.     *)
WebSocketSend(st, data) ==
  IF st.readyState[st.ws] = "CONNECTING" THEN [st EXCEPT !.thrown = TRUE]
  ELSE IF st.readyState[st.ws] = "OPEN"
       THEN [st EXCEPT !.sent = Append(@, data)]
       ELSE st

(* WebSocket.close: starts the closing handshake of a socket not yet closed *)
WebSocketClose(st) ==
  IF st.readyState[st.ws] \in {"CONNECTING", "OPEN"}
  THEN [st EXCEPT !.readyState[st.ws] = "CLOSING"]
  ELSE st

(* EventEmitter.emit: the callbacks run in registration order until one    *)
(* throws; 'error' without a callback throws the error itself.             *)
FirstThrower(ls) ==
  IF \E i \in 1..Len(ls) : ls[i] = "throws"
  THEN CHOOSE i \in 1..Len(ls) :
         ls[i] = "throws" /\ \A j \in 1..(i - 1) : ls[j] # "throws"
  ELSE 0

EmitEvent(st, cat, msg, code, data) ==
  LET ls == listeners[cat]
      ft == FirstThrower(ls)
      ev == [cat |-> cat, msg |-> msg, code |-> code, data |-> data,
             ran |-> IF ft = 0 THEN Len(ls) ELSE ft]
  IN [st EXCEPT !.emitted = Append(@, ev),
                !.thrown = (cat = "error" /\ Len(ls) = 0) \/ ft # 0]

Emit(st, cat, msg, code) == EmitEvent(st, cat, msg, code, <<>>)

(* clearTimeout(this.reconnectTimeout); this.reconnectTimeout = null *)
ClearReconnectTimeout(st) ==
  IF st.reconnectTimeout # Null
  THEN [st EXCEPT !.timers = {t \in @ : t.id # st.reconnectTimeout},
                  !.reconnectTimeout = Null]
  ELSE st

(* the backoff without its 30 s cap *)
BackoffDelayUncapped(attempts) == BackoffBase * Pow2(attempts)

(* the backoff doubling from the base at the first attempt *)
BackoffDelayFromBase(attempts) ==
  Min(BackoffBase * Pow2(attempts - 1), BackoffCap)

(* Math.min(1000 * Math.pow(2, attempts), 30000) *)
BackoffDelay(attempts) == Min(BackoffBase * Pow2(attempts), BackoffCap)

(* setTimeout returns a handle no pending timer and no held handle uses *)
FreshTimerId(st) ==
  LET used == TimerIds(st.timers) \cup {st.reconnectTimeout}
  IN CHOOSE i \in 1..(Cardinality(used) + 1) :
       i \notin used /\ \A j \in 1..(i - 1) : j \in used

(* scheduleReconnect without the test of the held timer handle *)
scheduleReconnectUnguarded(st) ==
  LET c == [st EXCEPT !.called = IF st.timers # {} THEN "pending" ELSE "idle"]
  IN IF ~c.isConnecting /\ c.reconnectAttempts < maxReconnectAttempts
     THEN LET n == c.reconnectAttempts + 1
              id == FreshTimerId(c)
          IN [c EXCEPT !.reconnectAttempts = n,
                       !.timers = @ \cup {[id |-> id, delay |-> BackoffDelay(n)]},
                       !.reconnectTimeout = id,
                       !.scheduled = BackoffDelay(n)]
     ELSE c

scheduleReconnect(st) ==
  LET c == [st EXCEPT !.called = IF st.timers # {} THEN "pending" ELSE "idle"]
  IN IF c.reconnectTimeout = Null /\ ~c.isConnecting
        /\ c.reconnectAttempts < maxReconnectAttempts
     THEN LET n == c.reconnectAttempts + 1
              id == FreshTimerId(c)
          IN [c EXCEPT !.reconnectAttempts = n,
                       !.timers = @ \cup {[id |-> id, delay |-> BackoffDelay(n)]},
                       !.reconnectTimeout = id,
                       !.scheduled = BackoffDelay(n)]
     ELSE c


(* new WebSocket(url): the socket takes the lowest slot whose socket is    *)
(* closed (a closed socket delivers no further event); Null when none is   *)
NewSocket(rs) ==
  IF FreeSockets(rs) = {} THEN Null
  ELSE CHOOSE s \in FreeSockets(rs) : \A q \in FreeSockets(rs) : s <= q

(* connect() gets past its two early returns *)
Creates(st) ==
  /\ ~(st.isConnecting \/ (st.ws # Null /\ st.readyState[st.ws] = "OPEN"))
  /\ st.reconnectAttempts < maxReconnectAttempts

(* connect() without the test of the reconnect budget *)
connectUnbudgeted(st, ctorThrows) ==
  IF st.isConnecting \/ (st.ws # Null /\ st.readyState[st.ws] = "OPEN")
  THEN st
  ELSE LET c == [st EXCEPT !.isConnecting = TRUE]
       IN IF ctorThrows
          THEN LET e == Emit([c EXCEPT !.isConnecting = FALSE], "error",
                             "Failed to create WebSocket connection", 0)
               IN IF e.thrown THEN e ELSE scheduleReconnect(e)
          ELSE LET s == NewSocket(c.readyState)
               IN [c EXCEPT !.ws = s, !.readyState[s] = "CONNECTING",
                            !.created = TRUE]

connect(st, ctorThrows) ==
  IF st.isConnecting \/ (st.ws # Null /\ st.readyState[st.ws] = "OPEN")
  THEN st
  ELSE IF st.reconnectAttempts >= maxReconnectAttempts
  THEN Emit(st, "error", "Max reconnection attempts reached", 0)
  ELSE LET c == [st EXCEPT !.isConnecting = TRUE]
       IN IF ctorThrows
          THEN LET e == Emit([c EXCEPT !.isConnecting = FALSE], "error",
                             "Failed to create WebSocket connection", 0)
               IN IF e.thrown THEN e ELSE scheduleReconnect(e)
          ELSE LET s == NewSocket(c.readyState)
               IN [c EXCEPT !.ws = s, !.readyState[s] = "CONNECTING",
                            !.created = TRUE]

onopen(st) ==
  LET a == [st EXCEPT !.isConnected = TRUE, !.isConnecting = FALSE,
                      !.reconnectAttempts = 0]
      b == IF a.ws # Null THEN WebSocketSend(a, UpgradePacket) ELSE a
  IN IF b.thrown THEN b
     ELSE LET c == Emit(b, "connected", "", 0)
          IN IF c.thrown THEN c ELSE ClearReconnectTimeout(c)

(* ws.onmessage *)
onmessage(st, rawData) ==
  LET tried ==
        IF rawData = PingPacket
        THEN IF st.ws # Null THEN WebSocketSend(st, PongPacket) ELSE st
        ELSE IF StartsWith(rawData, EventPrefix)
        THEN LET jsonData == SubSeq(rawData, 3, Len(rawData))
             IN IF ~Parses(jsonData) \/ ~Iterable(jsonData)
                THEN [st EXCEPT !.thrown = TRUE]
                ELSE IF Destructured(jsonData).eventName
                          = <<Str("status_update")>>
                THEN EmitEvent(st, "message", "", 0,
                               Destructured(jsonData).data)
                ELSE st
        ELSE st
  IN IF tried.thrown
     THEN Emit([tried EXCEPT !.thrown = FALSE], "error",
               "Failed to parse WebSocket message", 0)
     ELSE tried

onerror(st) ==
  LET a == [st EXCEPT !.isConnected = FALSE, !.isConnecting = FALSE]
      b == IF a.ws # Null /\ a.readyState[a.ws] = "OPEN"
           THEN WebSocketClose(a) ELSE a
  IN [Emit(b, "error", "WebSocket error occurred", 0) EXCEPT !.thrown = FALSE]

onclose(st, code) ==
  LET a == [st EXCEPT !.isConnected = FALSE, !.isConnecting = FALSE]
      b == [Emit(a, "disconnected", "", code) EXCEPT !.thrown = FALSE]
  IN IF code # NormalClosure THEN scheduleReconnect(b) ELSE b

joinRoom(st, roomId) ==
  IF st.ws # Null /\ st.readyState[st.ws] = "OPEN"
  THEN LET a == WebSocketSend(st, JoinPacket(roomId))
       IN IF a.thrown
          THEN Emit([a EXCEPT !.thrown = FALSE], "error", "Failed to join room", 0)
          ELSE a
  ELSE st

disconnect(st) ==
  LET a == IF st.ws # Null
           THEN LET s1 == WebSocketSend(st, DisconnectPacket)
                    s2 == IF s1.thrown THEN [s1 EXCEPT !.thrown = FALSE]
                          ELSE WebSocketClose(s1)
                IN [s2 EXCEPT !.ws = Null]
           ELSE st
      b == ClearReconnectTimeout(a)
  IN [b EXCEPT !.isConnected = FALSE, !.isConnecting = FALSE,
               !.reconnectAttempts = 0]

(* isConnectedToServer() *)
isConnectedToServer(st) == st.isConnected

----------------------------------------------------------------------------
(* The Assistant component.  JSON values are kept as their JSON text, a    *)
(* token sequence; undefined is the empty text.                            *)

Undefined == <<>>

RECURSIVE MembersText(_)
MembersText(fields) ==
  IF fields = <<>> THEN <<>>
  ELSE <<Str(fields[1].key), Punct(":")>> \o fields[1].value
       \o (IF Len(fields) > 1
           THEN <<Punct(",")>> \o MembersText(Tail(fields)) ELSE <<>>)

(* JSON.stringify of an object with the given members *)
JsonObject(fields) == <<Punct("{")>> \o MembersText(fields) \o <<Punct("}")>>

(* the value of the member key of the object whose members start at t[i] *)
RECURSIVE MemberFrom(_, _, _)
MemberFrom(t, i, key) ==
  IF t[i] = Punct("}") THEN Undefined
  ELSE LET j == ValueEnd(t, i + 2)
       IN IF t[i] = Str(key) THEN SubSeq(t, i + 2, j - 1)
          ELSE IF t[j] = Punct(",") THEN MemberFrom(t, j + 1, key)
          ELSE Undefined

(* data.key of a parsed value: undefined unless the value is an object     *)
(* with that member                                                        *)
Member(t, key) ==
  IF t[1] = Punct("{") THEN MemberFrom(t, 2, key) ELSE Undefined

(* if (value): undefined, the empty string and 0 are falsy *)
Truthy(value) == value \notin {Undefined, <<Str("")>>, <<Ch("0")>>}

RoomValues == {<<Str(r)>> : r \in Rooms}
Statuses == {"processing", "completed"}

(* JSON.stringify({type: 'join', room_id: roomId}) *)
JoinMessage(roomId) ==
  JsonObject(<<[key |-> "type", value |-> <<Str("join")>>],
               [key |-> "room_id", value |-> roomId]>>)

(* Frames the server may deliver to the component: WebSocketResponse of    *)
(* type update and processing_status, an update without room_id, and the   *)
(* Socket.IO packets of the endpoint the component connects to             *)
UpdateMessage(room, status) ==
  JsonObject(<<[key |-> "type", value |-> <<Str("update")>>],
               [key |-> "room_id", value |-> <<Str(room)>>],
               [key |-> "row_count", value |-> <<Ch("2"), Ch("0")>>],
               [key |-> "status", value |-> <<Str(status)>>]>>)

ProcessingStatusMessage(room, status) ==
  JsonObject(<<[key |-> "type", value |-> <<Str("processing_status")>>],
               [key |-> "room_id", value |-> <<Str(room)>>],
               [key |-> "status", value |-> <<Str(status)>>],
               [key |-> "progress", value |-> <<Ch("5"), Ch("0")>>]>>)

UpdateWithoutRoom ==
  JsonObject(<<[key |-> "type", value |-> <<Str("update")>>],
               [key |-> "status", value |-> <<Str("completed")>>]>>)

AssistantFrames ==
  {UpdateMessage(r, st) : r \in Rooms, st \in Statuses}
  \cup {ProcessingStatusMessage(r, st) : r \in Rooms, st \in Statuses}
  \cup {UpdateWithoutRoom, PingPacket}
  \cup {EventPacket("status_update", RoomPayload(r)) : r \in Rooms}

(* Chat messages: interface Message, with the text reduced to its kind *)
NoBackgroundData ==
  [defined |-> FALSE, room_id |-> Undefined, row_count |-> Undefined,
   status |-> Undefined, progress |-> Undefined]

BackgroundProcess(room) ==
  [defined |-> TRUE, room_id |-> <<Str(room)>>,
   row_count |-> <<Ch("1"), Ch("0")>>,
   status |-> Undefined, progress |-> Undefined]

Message(text, isUser, type, backgroundData, isProcessing) ==
  [text |-> text, isUser |-> isUser, type |-> type,
   backgroundData |-> backgroundData, isProcessing |-> isProcessing]

(* How API.buildQuery settles: it rejects, it resolves with a value that   *)
(* has no data member, so that responseData is undefined, or it resolves   *)
(* with ResponseData                                                       *)
Responses ==
  {[settled |-> "rejected", success |-> FALSE, type |-> "",
    background_process |-> NoBackgroundData],
   [settled |-> "undefined", success |-> FALSE, type |-> "",
    background_process |-> NoBackgroundData],
   [settled |-> "resolved", success |-> FALSE, type |-> "",
    background_process |-> NoBackgroundData]}
  \cup {[settled |-> "resolved", success |-> TRUE, type |-> t,
         background_process |-> NoBackgroundData]
          : t \in {"text", "excel", "background_process"}}
  \cup {[settled |-> "resolved", success |-> TRUE,
         type |-> "background_process",
         background_process |-> BackgroundProcess(r)] : r \in Rooms}

(* The component as a record, with the outputs of the running task *)
Assistant ==
  [phase |-> phase, socketRef |-> socketRef, sockets |-> uiSockets,
   timers |-> uiTimers, activeRooms |-> activeRooms,
   isSocketConnected |-> isSocketConnected, messages |-> messages,
   isLoading |-> isLoading, sent |-> <<>>, roomsSet |-> FALSE]

(* insertion-ordered sets of rooms, as new Set keeps them *)
RoomLists ==
  {l \in UNION {[1..n -> RoomValues] : n \in 0..Cardinality(RoomValues)} :
     \A i, j \in 1..Len(l) : i # j => l[i] # l[j]}

Has(rooms, roomId) == \E i \in 1..Len(rooms) : rooms[i] = roomId

Unclosed(st) == {s \in Sockets : st.sockets[s].readyState # "CLOSED"}

RECURSIVE Sum(_, _)
Sum(f, S) ==
  IF S = {} THEN 0
  ELSE LET x == CHOOSE x \in S : TRUE IN f[x] + Sum(f, S \ {x})

Pending(ts) == Sum(ts, DOMAIN ts)

(* React drops the state updates of a component that has unmounted *)
SetIsSocketConnected(st, value) ==
  IF st.phase = "unmounted" THEN st
  ELSE [st EXCEPT !.isSocketConnected = value]

SetMessages(st, value) ==
  IF st.phase = "unmounted" THEN st ELSE [st EXCEPT !.messages = value]

SetIsLoading(st, value) ==
  IF st.phase = "unmounted" THEN st ELSE [st EXCEPT !.isLoading = value]

SetActiveRooms(st, value) ==
  IF st.phase = "unmounted" THEN st
  ELSE [st EXCEPT !.activeRooms = value, !.roomsSet = TRUE]

(* socket.close() *)
SocketClose(st, s) ==
  IF st.sockets[s].readyState \in {"CONNECTING", "OPEN"}
  THEN [st EXCEPT !.sockets[s].readyState = "CLOSING"]
  ELSE st

(* connectWebSocket as created by the render whose activeRooms is rooms *)
connectWebSocket(st, rooms, ctorThrows) ==
  IF ctorThrows
  THEN [SetIsSocketConnected(st, FALSE) EXCEPT !.timers[rooms] = @ + 1]
  ELSE LET s == CHOOSE s \in Sockets :
                  /\ st.sockets[s].readyState = "CLOSED"
                  /\ \A q \in Sockets :
                       st.sockets[q].readyState = "CLOSED" => s <= q
       IN [st EXCEPT !.sockets[s] = [readyState |-> "CONNECTING",
                                     rooms |-> rooms],
                     !.socketRef = s]

(* useEffect(..., [connectWebSocket]): the cleanup of the previous run,    *)
(* then the run with the connectWebSocket of the current render            *)
ConnectionEffect(st, ctorThrows) ==
  LET cleaned == IF st.socketRef # Null THEN SocketClose(st, st.socketRef)
                 ELSE st
  IN connectWebSocket(cleaned, cleaned.activeRooms, ctorThrows)

(* the render that follows a task: a new activeRooms gives a new           *)
(* connectWebSocket, and the connection effect runs again                  *)
Rendered(st, ctorThrows) ==
  IF st.roomsSet /\ st.phase = "mounted" THEN ConnectionEffect(st, ctorThrows)
  ELSE st

(* joinRoom with setActiveRooms(new Set([roomId])) *)
AssistantJoinRoomReplacing(st, rooms, roomId) ==
  IF st.socketRef # Null /\ st.sockets[st.socketRef].readyState = "OPEN"
     /\ ~Has(rooms, roomId)
  THEN LET a == [st EXCEPT !.sent = Append(@, JoinMessage(roomId))]
       IN SetActiveRooms(a, <<roomId>>)
  ELSE st

(* joinRoom as created by the render whose activeRooms is rooms *)
AssistantJoinRoom(st, rooms, roomId) ==
  IF st.socketRef # Null /\ st.sockets[st.socketRef].readyState = "OPEN"
     /\ ~Has(rooms, roomId)
  THEN LET a == [st EXCEPT !.sent = Append(@, JoinMessage(roomId))]
       IN SetActiveRooms(a, IF Has(a.activeRooms, roomId) THEN a.activeRooms
                            ELSE Append(a.activeRooms, roomId))
  ELSE st

(* the 'open' listener of socket s *)
RECURSIVE JoinMessages(_)
JoinMessages(rooms) ==
  IF rooms = <<>> THEN <<>>
  ELSE <<JoinMessage(Head(rooms))>> \o JoinMessages(Tail(rooms))

OnSocketOpen(st, s) ==
  LET a == SetIsSocketConnected(st, TRUE)
  IN [a EXCEPT !.sent = @ \o JoinMessages(a.sockets[s].rooms)]

(* prevMessages.map of the update case *)
MessagesUpdated(msgs, data) ==
  [i \in 1..Len(msgs) |->
     IF msgs[i].backgroundData.defined
        /\ msgs[i].backgroundData.room_id = Member(data, "room_id")
     THEN [msgs[i] EXCEPT !.backgroundData =
             [defined |-> TRUE,
              room_id |-> Member(data, "room_id"),
              row_count |-> Member(data, "row_count"),
              status |-> Member(data, "status"),
              progress |-> Undefined]]
     ELSE msgs[i]]

(* the map of the processing_status case without its test of room_id *)
MessagesProgressedAll(msgs, data) ==
  [i \in 1..Len(msgs) |->
     IF msgs[i].backgroundData.defined
     THEN [msgs[i] EXCEPT !.backgroundData.status = Member(data, "status"),
                          !.backgroundData.progress = Member(data, "progress")]
     ELSE msgs[i]]

(* prevMessages.map of the processing_status case *)
MessagesProgressed(msgs, data) ==
  [i \in 1..Len(msgs) |->
     IF msgs[i].backgroundData.defined
        /\ msgs[i].backgroundData.room_id = Member(data, "room_id")
     THEN [msgs[i] EXCEPT !.backgroundData.status = Member(data, "status"),
                          !.backgroundData.progress = Member(data, "progress")]
     ELSE msgs[i]]

(* the 'message' listener of socket s *)
OnSocketMessage(st, s, eventData) ==
  IF ~Parses(eventData) THEN st
  ELSE IF Member(eventData, "type") = <<Str("update")>>
  THEN IF Truthy(Member(eventData, "room_id"))
       THEN LET a == AssistantJoinRoom(st, st.sockets[s].rooms,
                                       Member(eventData, "room_id"))
            IN SetMessages(a, MessagesUpdated(a.messages, eventData))
       ELSE st
  ELSE IF Member(eventData, "type") = <<Str("processing_status")>>
  THEN IF Truthy(Member(eventData, "room_id"))
       THEN SetMessages(st, MessagesProgressed(st.messages, eventData))
       ELSE st
  ELSE st

(* the 'error' and the 'close' listener of socket s *)
OnSocketError(st, s) == SetIsSocketConnected(st, FALSE)

OnSocketClose(st, s) ==
  [SetIsSocketConnected(st, FALSE) EXCEPT !.timers[st.sockets[s].rooms] = @ + 1]

(* handleSend up to its await, and from the await on *)
handleSend(st, blank) ==
  IF blank \/ st.isLoading THEN st
  ELSE LET a == SetMessages(st, Append(st.messages,
                  Message("input", TRUE, "", NoBackgroundData, FALSE)))
       IN SetIsLoading(a, TRUE)

AssistantMessage(response) ==
  IF response.type = "background_process"
  THEN Message("result", FALSE, "background_process",
               response.background_process,
               response.background_process.defined)
  ELSE Message("result", FALSE, response.type, NoBackgroundData, FALSE)

(* handleSend with setIsLoading(false) as the last statement of the try   *)
(* block                                                                   *)
handleSendSettledInTry(st, response) ==
  LET reply == IF response.settled \in {"rejected", "undefined"}
               THEN Message("fallback", FALSE, "", NoBackgroundData, FALSE)
               ELSE IF ~response.success
               THEN Message("failure", FALSE, "", NoBackgroundData, FALSE)
               ELSE AssistantMessage(response)
      appended == SetMessages(st, Append(st.messages, reply))
  IN IF response.settled = "resolved" THEN SetIsLoading(appended, FALSE)
     ELSE appended

(* a rejection of the promise, and the TypeError of responseData.success   *)
(* on an undefined responseData, are caught: the fallback message          *)
handleSendSettled(st, response) ==
  LET reply == IF response.settled \in {"rejected", "undefined"}
               THEN Message("fallback", FALSE, "", NoBackgroundData, FALSE)
               ELSE IF ~response.success
               THEN Message("failure", FALSE, "", NoBackgroundData, FALSE)
               ELSE AssistantMessage(response)
  IN SetIsLoading(SetMessages(st, Append(st.messages, reply)), FALSE)

(* the component after its first render *)
InitAssistant ==
  /\ phase = "rendered"
  /\ socketRef = Null
  /\ uiSockets = [s \in Sockets |-> [readyState |-> "CLOSED", rooms |-> <<>>]]
  /\ uiTimers = [l \in RoomLists |-> 0]
  /\ activeRooms = <<>>
  /\ isSocketConnected = FALSE
  /\ messages = <<>>
  /\ isLoading = FALSE
  /\ uiLast = [op |-> "init", frame |-> <<>>, room |-> Undefined,
               sent |-> <<>>, wasOpen |-> FALSE]

----------------------------------------------------------------------------
(* One task of the event loop: the state the task leaves, and its record *)

Pre ==
  [isConnected |-> isConnected, isConnecting |-> isConnecting,
   reconnectAttempts |-> reconnectAttempts,
   reconnectTimeout |-> reconnectTimeout,
   open |-> ws # Null /\ readyState[ws] = "OPEN"]

Terminal(r) ==
  Cardinality({i \in 1..Len(r.emitted) :
                 r.emitted[i].msg = "Max reconnection attempts reached"})

(* The handlers reach a socket only through this.ws, so the numbering of   *)
(* the sockets carries no information: the socket the service holds takes  *)
(* slot 1 and the others follow in the order of their readyState.          *)
Repeat(x, n) == [i \in 1..n |-> x]

Renumbered(rs, held) ==
  LET others == DOMAIN rs \ {held}
      count(x) == Cardinality({s \in others : rs[s] = x})
      rest == Repeat("CONNECTING", count("CONNECTING"))
              \o Repeat("OPEN", count("OPEN"))
              \o Repeat("CLOSING", count("CLOSING"))
              \o Repeat("CLOSED", count("CLOSED"))
  IN IF held = Null THEN rest ELSE <<rs[held]>> \o rest

CommitTask(r, op, code, frame) ==
  /\ ws' = IF r.ws = Null THEN Null ELSE 1
  /\ readyState' = Renumbered(r.readyState, r.ws)
  /\ isConnected' = r.isConnected
  /\ isConnecting' = r.isConnecting
  /\ reconnectTimeout' = r.reconnectTimeout
  /\ timers' = r.timers
  /\ reconnectAttempts' = r.reconnectAttempts
  /\ last' = [op |-> op, code |-> code,
              sent |-> r.sent, emitted |-> r.emitted, thrown |-> r.thrown,
              created |-> r.created, scheduled |-> r.scheduled,
              called |-> r.called, frame |-> frame, pre |-> Pre]

Commit(r, op, code) == CommitTask(r, op, code, <<>>)

Init ==
  /\ ws = Null
  /\ readyState = [s \in Sockets |-> "CLOSED"]
  /\ isConnected = FALSE
  /\ isConnecting = FALSE
  /\ reconnectTimeout = Null
  /\ timers = {}
  /\ reconnectAttempts = 0
  /\ listeners = [c \in Categories |-> <<>>]
  /\ joined = {}
  /\ deferred = <<>>
  /\ intentional = FALSE
  /\ terminalErrors = 0
  /\ last = [op |-> "init", code |-> 0,
             sent |-> <<>>, emitted |-> <<>>, thrown |-> FALSE,
             created |-> FALSE, scheduled |-> 0, called |-> "no",
             frame |-> <<>>, pre |-> Pre]
  /\ InitAssistant

(* wsService.connect(), called at module load and by any component *)
Connect ==
  \E ctorThrows \in BOOLEAN :
    /\ (Creates(Service) /\ ~ctorThrows) => FreeSockets(readyState) # {}
    /\ LET r == connect(Service, ctorThrows)
       IN /\ Commit(r, "connect", 0)
          /\ terminalErrors' = Min(terminalErrors + Terminal(r), 2)
    /\ intentional' = FALSE
    /\ UNCHANGED assistantVars
    /\ UNCHANGED <<listeners, joined, deferred>>

(* the callback scheduleReconnect handed to setTimeout *)
TimerFire ==
  \E t \in timers, ctorThrows \in BOOLEAN :
    LET st == [Service EXCEPT !.timers = @ \ {t}]
    IN /\ (Creates(st) /\ ~ctorThrows) => FreeSockets(readyState) # {}
       /\ LET r == connect(st, ctorThrows)
          IN /\ Commit(r, "timer", 0)
             /\ terminalErrors' = Min(terminalErrors + Terminal(r), 2)
       /\ UNCHANGED assistantVars
       /\ UNCHANGED <<listeners, joined, deferred, intentional>>

(* the browser opens socket s: ws.onopen *)
TransportOpen ==
  \E s \in Sockets :
    /\ readyState[s] = "CONNECTING"
    /\ Commit(onopen([Service EXCEPT !.readyState[s] = "OPEN"]),
              "open", 0)
    /\ deferred' = <<>>
    /\ terminalErrors' = 0
    /\ UNCHANGED assistantVars
    /\ UNCHANGED <<listeners, joined, intentional>>

(* the browser fails the connection of socket s: in one task the socket    *)
(* becomes CLOSED, ws.onerror runs and ws.onclose runs with code 1006      *)
TransportFail ==
  \E s \in Sockets :
    /\ readyState[s] \in {"CONNECTING", "OPEN", "CLOSING"}
    /\ Commit(onclose(onerror([Service EXCEPT !.readyState[s] = "CLOSED"]), 1006),
              "fail", 1006)
    /\ UNCHANGED assistantVars
    /\ UNCHANGED <<listeners, joined, deferred, intentional, terminalErrors>>

(* the connection of socket s ends without a transport error: ws.onclose *)
TransportClose ==
  \E s \in Sockets, code \in CloseCodes :
    /\ readyState[s] \in {"OPEN", "CLOSING"}
    /\ Commit(onclose([Service EXCEPT !.readyState[s] = "CLOSED"], code),
              "close", code)
    /\ UNCHANGED assistantVars
    /\ UNCHANGED <<listeners, joined, deferred, intentional, terminalErrors>>

(* the browser delivers a text frame on socket s, which is open:          *)
(* ws.onmessage                                                            *)
TransportMessage ==
  \E s \in Sockets, frame \in InboundFrames :
    /\ readyState[s] = "OPEN"
    /\ CommitTask(onmessage(Service, frame), "message", 0, frame)
    /\ UNCHANGED assistantVars
    /\ UNCHANGED <<listeners, joined, deferred, intentional, terminalErrors>>

(* wsService.joinRoom(roomId) *)
JoinRoom ==
  \E roomId \in Rooms :
    /\ Commit(joinRoom(Service, roomId), "joinRoom", 0)
    /\ UNCHANGED assistantVars
    /\ UNCHANGED <<listeners, joined, deferred, intentional, terminalErrors>>

(* wsService.joinRoom(roomId), with the requests observed *)
JoinRoomObserved ==
  \E roomId \in Rooms :
    /\ Commit(joinRoom(Service, roomId), "joinRoom", 0)
    /\ joined' = joined \cup {roomId}
    /\ deferred' = IF (ws # Null /\ readyState[ws] = "OPEN")
                      \/ \E i \in 1..Len(deferred) : deferred[i] = roomId
                   THEN deferred ELSE Append(deferred, roomId)
    /\ UNCHANGED assistantVars
    /\ UNCHANGED <<listeners, intentional, terminalErrors>>

(* wsService.disconnect() *)
Disconnect ==
  /\ Commit(disconnect(Service), "disconnect", 0)
  /\ intentional' = TRUE
  /\ terminalErrors' = 0
  /\ UNCHANGED assistantVars
  /\ UNCHANGED <<listeners, joined, deferred>>

(* wsService.on(category, callback) *)
Subscribed ==
  Len(listeners["connected"]) + Len(listeners["disconnected"])
  + Len(listeners["error"]) + Len(listeners["message"])

On ==
  \E cat \in Categories, kind \in CallbackKinds :
    /\ Subscribed < MaxSubscribers
    /\ listeners' = [listeners EXCEPT ![cat] = Append(@, kind)]
    /\ UNCHANGED assistantVars
    /\ UNCHANGED <<ws, readyState, isConnected, isConnecting, reconnectTimeout,
                   timers, reconnectAttempts, joined, deferred, intentional,
                   terminalErrors, last>>

Next ==
  \/ Connect
  \/ TimerFire
  \/ TransportOpen
  \/ TransportFail
  \/ TransportClose
  \/ JoinRoom
  \/ Disconnect
  \/ On

(* The service with any number of subscribers up to MaxSubscribers *)
Spec == Init /\ [][Next]_vars

(* The service as the repository ships it, where no component subscribes,  *)
(* with the rooms requested through joinRoom observed                      *)
NextRooms ==
  \/ Connect
  \/ TimerFire
  \/ TransportOpen
  \/ TransportFail
  \/ TransportClose
  \/ JoinRoomObserved
  \/ Disconnect

SpecRooms == Init /\ [][NextRooms]_vars

(* The reconnection policy on its own: the service holds an open socket,  *)
(* with the counter at any value up to the cap and the timer handle empty, *)
(* pending or already fired, and the transport closes, fails, reopens and  *)
(* fires the timers from there; a component may have subscribed a callback *)
(* to 'error'.                                                             *)
InitPolicy ==
  /\ ws = 1
  /\ readyState = [s \in Sockets |-> IF s = 1 THEN "OPEN" ELSE "CLOSED"]
  /\ isConnected = TRUE
  /\ isConnecting = FALSE
  /\ reconnectAttempts \in 0..maxReconnectAttempts
  /\ \E held \in {"none", "pending", "fired"} :
       /\ held = "pending" => reconnectAttempts >= 1
       /\ reconnectTimeout = IF held = "none" THEN Null ELSE 1
       /\ timers = IF held = "pending"
                   THEN {[id |-> 1, delay |-> BackoffDelay(reconnectAttempts)]}
                   ELSE {}
  /\ \E ls \in {<<>>, <<"ok">>} :
       listeners = [c \in Categories |-> IF c = "error" THEN ls ELSE <<>>]
  /\ joined = {}
  /\ deferred = <<>>
  /\ intentional = FALSE
  /\ terminalErrors = 0
  /\ last = [op |-> "init", code |-> 0,
             sent |-> <<>>, emitted |-> <<>>, thrown |-> FALSE,
             created |-> FALSE, scheduled |-> 0, called |-> "no",
             frame |-> <<>>, pre |-> Pre]
  /\ InitAssistant

NextPolicy ==
  \/ Connect
  \/ TransportClose
  \/ TransportFail
  \/ TimerFire
  \/ TransportOpen

SpecPolicy == InitPolicy /\ [][NextPolicy]_vars

(* The service receiving frames: the sockets open, deliver frames and      *)
(* close while components subscribe, connect, join and disconnect          *)
NextFrames ==
  \/ Connect
  \/ TransportOpen
  \/ TransportMessage
  \/ TransportClose
  \/ JoinRoom
  \/ Disconnect
  \/ On

SpecFrames == Init /\ [][NextFrames]_vars

(* The service emitting to subscribers: components have subscribed up to   *)
(* MaxCallbacks callbacks to one category before the first connect(), and  *)
(* the transport opens, delivers frames, closes, fails and the timers fire *)
CallbackLists == UNION {[1..n -> CallbackKinds] : n \in 0..MaxCallbacks}

InitEmission ==
  /\ ws = Null
  /\ readyState = [s \in Sockets |-> "CLOSED"]
  /\ isConnected = FALSE
  /\ isConnecting = FALSE
  /\ reconnectTimeout = Null
  /\ timers = {}
  /\ reconnectAttempts = 0
  /\ \E cat \in Categories, ls \in CallbackLists :
       listeners = [c \in Categories |-> IF c = cat THEN ls ELSE <<>>]
  /\ joined = {}
  /\ deferred = <<>>
  /\ intentional = FALSE
  /\ terminalErrors = 0
  /\ last = [op |-> "init", code |-> 0,
             sent |-> <<>>, emitted |-> <<>>, thrown |-> FALSE,
             created |-> FALSE, scheduled |-> 0, called |-> "no",
             frame |-> <<>>, pre |-> Pre]
  /\ InitAssistant

NextEmission ==
  \/ Connect
  \/ TimerFire
  \/ TransportOpen
  \/ TransportMessage
  \/ TransportFail
  \/ TransportClose

SpecEmission == InitEmission /\ [][NextEmission]_vars


----------------------------------------------------------------------------
(* One task of the component: the state it leaves, and its record *)
CommitAssistant(r, op, frame, room) ==
  /\ phase' = r.phase
  /\ socketRef' = r.socketRef
  /\ uiSockets' = [s \in Sockets |->
                     IF r.sockets[s].readyState = "CLOSED"
                     THEN [readyState |-> "CLOSED", rooms |-> <<>>]
                     ELSE r.sockets[s]]
  /\ uiTimers' = r.timers
  /\ activeRooms' = r.activeRooms
  /\ isSocketConnected' = r.isSocketConnected
  /\ messages' = r.messages
  /\ isLoading' = r.isLoading
  /\ uiLast' = [op |-> op, frame |-> frame, room |-> room, sent |-> r.sent,
                wasOpen |-> socketRef # Null
                            /\ uiSockets[socketRef].readyState = "OPEN"]

serviceVars == <<ws, readyState, isConnected, isConnecting, reconnectTimeout,
                 timers, reconnectAttempts, listeners, joined, deferred,
                 intentional, terminalErrors, last>>

(* the connection effect runs after the first render *)
Mount ==
  \E ctorThrows \in BOOLEAN :
    /\ phase = "rendered"
    /\ CommitAssistant(
         ConnectionEffect([Assistant EXCEPT !.phase = "mounted"], ctorThrows),
         "mount", <<>>, Undefined)
    /\ UNCHANGED serviceVars

(* the component unmounts: the cleanup of the connection effect *)
Unmount ==
  /\ phase = "mounted"
  /\ CommitAssistant(
       [(IF socketRef # Null THEN SocketClose(Assistant, socketRef)
         ELSE Assistant) EXCEPT !.phase = "unmounted"],
       "unmount", <<>>, Undefined)
  /\ UNCHANGED serviceVars

(* the browser opens socket s of the component *)
AssistantSocketOpen ==
  \E s \in Sockets :
    /\ uiSockets[s].readyState = "CONNECTING"
    /\ CommitAssistant(
         OnSocketOpen([Assistant EXCEPT !.sockets[s].readyState = "OPEN"], s),
         "open", <<>>, Undefined)
    /\ UNCHANGED serviceVars

(* the browser delivers a frame on socket s of the component, and the      *)
(* component renders                                                       *)
AssistantSocketMessage ==
  \E s \in Sockets, frame \in AssistantFrames, ctorThrows \in BOOLEAN :
    /\ uiSockets[s].readyState = "OPEN"
    /\ LET a == OnSocketMessage(Assistant, s, frame)
       IN /\ (a.roomsSet /\ a.phase = "mounted" /\ ~ctorThrows)
               => Cardinality(Unclosed(a)) < MaxSockets
          /\ Pending(Rendered(a, ctorThrows).timers) <= MaxSockets
          /\ CommitAssistant(Rendered(a, ctorThrows), "message", frame,
                             Undefined)
    /\ UNCHANGED serviceVars

(* the connection of socket s of the component ends, after an error of the *)
(* transport or without one                                                *)
AssistantSocketClose ==
  \E s \in Sockets, withError \in BOOLEAN :
    /\ uiSockets[s].readyState # "CLOSED"
    /\ Pending(uiTimers) < MaxSockets
    /\ LET a == [Assistant EXCEPT !.sockets[s].readyState = "CLOSED"]
           b == IF withError THEN OnSocketError(a, s) ELSE a
       IN CommitAssistant(OnSocketClose(b, s),
                          IF withError THEN "fail" ELSE "close", <<>>,
                          Undefined)
    /\ UNCHANGED serviceVars

(* a timer of the component fires: the connectWebSocket it was given runs *)
AssistantTimerFire ==
  \E rooms \in RoomLists, ctorThrows \in BOOLEAN :
    /\ uiTimers[rooms] > 0
    /\ ~ctorThrows => Cardinality(Unclosed(Assistant)) < MaxSockets
    /\ CommitAssistant(
         connectWebSocket([Assistant EXCEPT !.timers[rooms] = @ - 1],
                          rooms, ctorThrows),
         "timer", <<>>, Undefined)
    /\ UNCHANGED serviceVars

(* the user sends the input *)
HandleSend ==
  \E blank \in BOOLEAN :
    /\ phase = "mounted"
    /\ Len(messages) + 2 <= MaxMessages
    /\ CommitAssistant(handleSend(Assistant, blank),
                       IF blank THEN "blank" ELSE "send", <<>>, Undefined)
    /\ UNCHANGED serviceVars

(* API.buildQuery settles and handleSend resumes *)
BuildQuerySettles ==
  \E response \in Responses :
    /\ phase = "mounted"
    /\ isLoading
    /\ CommitAssistant(handleSendSettled(Assistant, response), "response",
                       <<>>, response.background_process.room_id)
    /\ UNCHANGED serviceVars

(* The connection of the Assistant component, beside the idle service:     *)
(* the component mounts and unmounts, and its sockets open, deliver        *)
(* frames and close while its timers fire                                  *)
NextAssistant ==
  \/ Mount
  \/ Unmount
  \/ AssistantSocketOpen
  \/ AssistantSocketMessage
  \/ AssistantSocketClose
  \/ AssistantTimerFire

SpecAssistant == Init /\ [][NextAssistant]_vars

(* The chat of the Assistant component: the user sends, API.buildQuery     *)
(* settles, and the sockets of the mounted component open and deliver      *)
(* frames                                                                  *)
NextChat ==
  \/ Mount
  \/ AssistantSocketOpen
  \/ AssistantSocketMessage
  \/ HandleSend
  \/ BuildQuerySettles

SpecChat == Init /\ [][NextChat]_vars

(* The promise of API.buildQuery settles and the continuation of           *)
(* handleSend runs: a request in flight does not stay in flight for ever   *)
SpecChatSettling == SpecChat /\ WF_vars(BuildQuerySettles)

----------------------------------------------------------------------------
(* What a task did, read from its record *)

Closure == last.op \in {"close", "fail"}
AbnormalClosureSeen == Closure /\ last.code # NormalClosure

(* the rooms of the join frames among the frames sent, in sending order *)
JoinRoomsSent(sent) ==
  LET joins == SelectSeq(sent, LAMBDA f : \E r \in Rooms : f = JoinPacket(r))
  IN [i \in 1..Len(joins) |-> CHOOSE r \in Rooms : joins[i] = JoinPacket(r)]

----------------------------------------------------------------------------
(* C1: whatever connect(), disconnect(), the reconnect timer and the       *)
(* transport did, at most one socket of the service is connecting or open. *)
C1_AtMostOneLiveSocket == Cardinality(Live(readyState)) <= 1

(* C2: when the service becomes connected, the rooms joinRoom() was called *)
(* with while it was not connected each get exactly one join frame, in the *)
(* order they were first requested.                                        *)
C2_DeferredJoinsSentOnConnect ==
  [][(last'.op = "open" /\ deferred # <<>>)
       => JoinRoomsSent(last'.sent) = deferred]_vars

(* C3: every transition into Connected sends, within the open handler and  *)
(* so before any later inbound frame, a join frame for every room joined   *)
(* so far.                                                                 *)
C3_JoinsReplayedOnEveryConnect ==
  last.op = "open"
    => \A r \in joined :
         \E i \in 1..Len(last.sent) : last.sent[i] = JoinPacket(r)

(* C4: a run of failing reconnect attempts stops retrying only when        *)
(* maxReconnectAttempts retries were scheduled, and by then the terminal   *)
(* 'Max reconnection attempts reached' error was emitted exactly once.     *)
C4_RetriesRunToTheCap ==
  (AbnormalClosureSeen /\ timers = {} /\ Live(readyState) = {})
    => (reconnectAttempts = maxReconnectAttempts /\ terminalErrors = 1)

(* C5: from disconnect() until connect() is called again no reconnect      *)
(* timer is pending, none is scheduled by a close event, and no timer      *)
(* opens a socket.                                                         *)
C5_NoReconnectAfterDisconnect ==
  intentional
    => /\ timers = {}
       /\ last.scheduled = 0
       /\ ~(last.op = "timer" /\ last.created)

(* C6: the Nth retry of a run of abnormal closures, N being the counter    *)
(* after its increment, is timed at min(2^N * 1000 ms, 30000 ms).          *)
C6_DelayIsCappedPowerOfTwo ==
  last.scheduled # 0
    => /\ reconnectAttempts \in 1..maxReconnectAttempts
       /\ last.scheduled = IF 2^reconnectAttempts * 1000 <= 30000
                           THEN 2^reconnectAttempts * 1000 ELSE 30000
       /\ [id |-> reconnectTimeout, delay |-> last.scheduled] \in timers

C6_CappedRetryScheduled ==
  /\ Closure
  /\ reconnectAttempts = 5
  /\ last.scheduled = 30000

(* C7 as stated: an abnormal close (1006) of the connected service emits   *)
(* 'disconnected' with code 1006 and schedules attempt 1 after 1000 ms.    *)
DisconnectedEmitted(code) ==
  \E i \in 1..Len(last.emitted) :
    last.emitted[i].cat = "disconnected" /\ last.emitted[i].code = code

C8_RetryPendingAfterFailure ==
  (AbnormalClosureSeen /\ ~intentional
     /\ reconnectAttempts < maxReconnectAttempts)
    => timers # {}

(* C9: at most one reconnect timer is pending, and scheduleReconnect       *)
(* called while one is pending leaves the timer and the counter alone.     *)
C9_OneReconnectTimer ==
  /\ Cardinality(timers) <= 1
  /\ last.called = "pending"
       => /\ last.scheduled = 0
          /\ timers # {}
          /\ reconnectTimeout = last.pre.reconnectTimeout
          /\ reconnectAttempts = last.pre.reconnectAttempts

C9_ScheduleWhilePending ==
  /\ last.called = "pending"
  /\ Closure
  /\ Cardinality(timers) = 1

(* C10: connect() called while the service is connecting or connected      *)
(* creates no socket, emits nothing and leaves the flags, the counter and  *)
(* the timer as they were.                                                 *)
C10_ConnectIsNoOpWhenBusy ==
  (last.op = "connect" /\ (last.pre.isConnecting \/ last.pre.isConnected))
    => /\ ~last.created
       /\ last.emitted = <<>>
       /\ last.scheduled = 0
       /\ isConnecting = last.pre.isConnecting
       /\ isConnected = last.pre.isConnected
       /\ reconnectAttempts = last.pre.reconnectAttempts
       /\ reconnectTimeout = last.pre.reconnectTimeout

----------------------------------------------------------------------------
(* connect() ran, from the caller or from the reconnect timer, while the   *)
(* service was disconnected and the reconnect budget was used up           *)
ConnectWhenExhausted ==
  /\ last.op \in {"connect", "timer"}
  /\ ~last.pre.isConnected
  /\ ~last.pre.isConnecting
  /\ last.pre.reconnectAttempts >= maxReconnectAttempts

C12_CounterGrowth ==
  reconnectAttempts' > reconnectAttempts => ~isConnected' /\ ~isConnecting'

C12_CounterReset ==
  (reconnectAttempts # 0 /\ reconnectAttempts' = 0) => last'.op = "open"

C12_CounterResetsOnlyOnConnected ==
  [][C12_CounterGrowth /\ C12_CounterReset]_vars

----------------------------------------------------------------------------
(* What the message handler did with the frame it was given *)

Received(frame) == last.op = "message" /\ last.frame = frame

(* the flags, the counter and the timer handle are as the task found them *)
ManagerStateKept ==
  /\ isConnected = last.pre.isConnected
  /\ isConnecting = last.pre.isConnecting
  /\ reconnectAttempts = last.pre.reconnectAttempts
  /\ reconnectTimeout = last.pre.reconnectTimeout

(* C13: a ping frame '2', in whatever state the service is when it         *)
(* arrives, makes the service send exactly one pong frame '3' and nothing  *)
(* else, emit no event, and keep its flags, counter and timer handle.      *)
C13_PingIsAnsweredByOnePong ==
  Received(PingPacket) =>
    /\ last.sent = <<PongPacket>>
    /\ last.emitted = <<>>
    /\ ManagerStateKept

(* the event packets carrying a status update that the server may deliver *)
StatusUpdate(roomId) == EventPacket("status_update", RoomPayload(roomId))

(* the well-formed frames that are neither a ping nor a status update *)
OtherFrames ==
  WellFormedFrames \ ({PingPacket} \cup {StatusUpdate(r) : r \in Rooms})

MessageEvents ==
  SelectSeq(last.emitted, LAMBDA ev : ev.cat = "message")

(* C14: each well-formed 42["status_update",payload] frame yields exactly  *)
(* one 'message' event, carrying that payload and run by every callback    *)
(* registered for 'message'; any other well-formed frame that is not a     *)
(* ping yields no event, sends nothing and changes no state.               *)
C14_MessageEventPerStatusUpdate ==
  /\ \A r \in Rooms :
       Received(StatusUpdate(r)) =>
         /\ Len(MessageEvents) = 1
         /\ MessageEvents[1].data = RoomPayload(r)
         /\ MessageEvents[1].ran = Len(listeners["message"])
  /\ \A f \in OtherFrames :
       Received(f) =>
         last.emitted = <<>> /\ last.sent = <<>> /\ ManagerStateKept

(* What the inbound decoder of the message handler makes of a frame: the   *)
(* event name and the payload of an event packet, and nothing of a frame   *)
(* it does not recognise as one                                            *)
Decoded(rawData) ==
  LET jsonData == SubSeq(rawData, 3, Len(rawData))
  IN IF StartsWith(rawData, EventPrefix) /\ Parses(jsonData)
        /\ Iterable(jsonData)
     THEN Destructured(jsonData)
     ELSE [eventName |-> <<>>, data |-> <<>>]

(* C15: the frame joinRoom() sends for the 'join' event is in the format   *)
(* the inbound decoder recognises as an event packet, and decoding it      *)
(* gives back the name 'join' and the payload with the room.               *)
C15_JoinFrameDecodesToJoin ==
  last.op = "joinRoom" =>
    \A i \in 1..Len(last.sent) :
      \E r \in Rooms :
        Decoded(last.sent[i]) =
          [eventName |-> <<Str("join")>>, data |-> RoomPayload(r)]

(* C16: whatever the state and however many 'error' callbacks are          *)
(* registered, none included, connect(), joinRoom() and disconnect()       *)
(* return normally: no exception leaves them.                              *)
C16_PublicCallsReturnNormally ==
  last.op \in {"connect", "joinRoom", "disconnect"} => ~last.thrown

(* C17: a malformed frame, invalid JSON or a value of the wrong shape      *)
(* after the 42 prefix, never throws out of the message handler and        *)
(* produces exactly one event, the typed parse error; the socket stays     *)
(* open and the flags, the counter and the timer handle are unchanged.     *)
C17_MalformedFrameGivesOneError ==
  \A f \in MalformedFrames :
    Received(f) =>
      /\ ~last.thrown
      /\ Len(last.emitted) = 1
      /\ last.emitted[1].cat = "error"
      /\ last.emitted[1].msg = "Failed to parse WebSocket message"
      /\ ManagerStateKept
      /\ last.pre.open => (ws # Null /\ readyState[ws] = "OPEN")

(* a callback registered for the category throws *)
Throwing(cat) ==
  \E i \in 1..Len(listeners[cat]) : listeners[cat][i] = "throws"

(* C18: when a callback of a category throws, every other callback of the  *)
(* category still runs in that emission and the emitting handler goes on:  *)
(* the open handler clears the reconnect timer and its handle, the close   *)
(* handler calls scheduleReconnect after an abnormal closure.              *)
C18_EmissionIsolatedPerCallback ==
  /\ \A i \in 1..Len(last.emitted) :
       last.emitted[i].ran = Len(listeners[last.emitted[i].cat])
  /\ (last.op = "open" /\ Throwing("connected"))
       => (reconnectTimeout = Null /\ timers = {})
  /\ (AbnormalClosureSeen /\ Throwing("disconnected"))
       => last.called # "no"

----------------------------------------------------------------------------
(* What a task of the Assistant did *)

Sent(frame) == \E i \in 1..Len(uiLast.sent) : uiLast.sent[i] = frame

(* the rooms of the background jobs among the chat messages *)
JobRooms ==
  {messages[i].backgroundData.room_id :
     i \in {j \in 1..Len(messages) : messages[j].backgroundData.defined}}

(* C19: when the response to a query carries a background-job descriptor   *)
(* with a room, a join frame for that room is sent without waiting for an  *)
(* inbound frame of the room: in the task that handles the response when   *)
(* the socket is open, and otherwise when a socket next opens.             *)
C19_JobRoomIsJoined ==
  /\ (uiLast.op = "response" /\ uiLast.room # Undefined /\ uiLast.wasOpen)
       => Sent(JoinMessage(uiLast.room))
  /\ uiLast.op = "open" => \A room \in JobRooms : Sent(JoinMessage(room))

(* the status messages the server may deliver for a room *)
StatusMessages(room) ==
  {UpdateMessage(room, st) : st \in Statuses}
  \cup {ProcessingStatusMessage(room, st) : st \in Statuses}

(* the chat message is a background job of the room *)
JobOf(msg, room) ==
  msg.backgroundData.defined /\ msg.backgroundData.room_id = <<Str(room)>>

(* C20: a status message for room R sets the status and the progress of    *)
(* exactly the chat messages whose backgroundData.room_id is R to those of *)
(* the message and keeps their other fields outside backgroundData; every  *)
(* other chat message, and the number and order of the chat messages, are  *)
(* unchanged.                                                              *)
C20_StatusUpdatesOnlyItsRoom ==
  [][\A room \in Rooms : \A f \in StatusMessages(room) :
       (uiLast'.op = "message" /\ uiLast'.frame = f) =>
         /\ Len(messages') = Len(messages)
         /\ \A i \in 1..Len(messages) :
              IF JobOf(messages[i], room)
              THEN /\ JobOf(messages'[i], room)
                   /\ messages'[i].backgroundData.status = Member(f, "status")
                   /\ messages'[i].backgroundData.progress
                        = Member(f, "progress")
                   /\ [messages'[i] EXCEPT !.backgroundData = NoBackgroundData]
                        = [messages[i] EXCEPT !.backgroundData = NoBackgroundData]
              ELSE messages'[i] = messages[i]]_vars

C20_StatusAppliedAmongOtherMessages ==
  \E room \in Rooms, i, j, k \in 1..Len(messages) :
    /\ uiLast.op = "message"
    /\ uiLast.frame \in StatusMessages(room)
    /\ JobOf(messages[i], room)
    /\ messages[i].backgroundData.status = Member(uiLast.frame, "status")
    /\ messages[j].backgroundData.defined
    /\ ~JobOf(messages[j], room)
    /\ messages[k].isUser

----------------------------------------------------------------------------
(* C21: disconnect() called while the service holds a socket that is       *)
(* connecting or open takes that socket out of the connecting and open     *)
(* sockets, so that it cannot open later, cancels the pending reconnect    *)
(* timer and leaves the service disconnected, holding no socket.           *)
C21_DisconnectClosesTheSocket ==
  [][(last'.op = "disconnect" /\ ws # Null
        /\ readyState[ws] \in {"CONNECTING", "OPEN"})
       => /\ Cardinality(Live(readyState'))
              = Cardinality(Live(readyState)) - 1
          /\ ws' = Null
          /\ timers' = {}
          /\ reconnectTimeout' = Null
          /\ ~isConnected'
          /\ ~isConnecting']_vars

----------------------------------------------------------------------------
(* A task in which scheduleReconnect() armed a timer.                      *)
Schedules == timers' # timers /\ last'.scheduled # 0

(* A task that closed the socket the service holds.                        *)
CurrentSocketClosed ==
  /\ ws # Null
  /\ ws' = ws
  /\ readyState[ws] # "CLOSED"
  /\ readyState'[ws'] = "CLOSED"

(* C22: every step that schedules a reconnect timer is an abnormal closure *)
(* (code other than 1000) of the socket the service holds, taken while the *)
(* service is not connecting; a close with code 1000 emits 'disconnected'  *)
(* and schedules nothing.                                                  *)
C22_ScheduledOnlyByAbnormalClosure ==
  [][/\ Schedules => /\ last'.op \in {"close", "fail"}
                      /\ last'.code # NormalClosure
                      /\ CurrentSocketClosed
                      /\ ~isConnecting'
     /\ (last'.op = "close" /\ last'.code = NormalClosure /\ last' # last)
          => last'.scheduled = 0]_vars

----------------------------------------------------------------------------
(* The rooms of activeRooms, as a set.                                     *)
RoomSet(rooms) == {rooms[i] : i \in 1..Len(rooms)}

(* C23: the set of joined rooms only grows: a step never removes a room,   *)
(* whether it is a join, a transport close, a reconnect timer, an effect   *)
(* re-run or the unmount, and a join of a room that is already in the set  *)
(* leaves the set as it is.                                                *)
C23_JoinedRoomsOnlyGrow ==
  [][/\ RoomSet(activeRooms) \subseteq RoomSet(activeRooms')
     /\ Cardinality(RoomSet(activeRooms')) = Len(activeRooms')
     /\ (uiLast'.op = "message"
          /\ Member(uiLast'.frame, "room_id") \in RoomSet(activeRooms))
          => activeRooms' = activeRooms]_vars

(* A room was joined, the socket was closed afterwards and a reconnect     *)
(* timer has created the next socket: the room is still registered.        *)
C23_RoomKeptAcrossReconnect ==
  /\ activeRooms # <<>>
  /\ uiLast.op = "timer"
  /\ \E s \in DOMAIN uiSockets : uiSockets[s].readyState = "CONNECTING"

----------------------------------------------------------------------------
(* C24: the service is in exactly one of Disconnected, Connecting and      *)
(* Connected in every reachable state: isConnecting and isConnected are    *)
(* never both true.                                                        *)
C24_OneConnectionState == ~(isConnecting /\ isConnected)

(* C25: the reconnect timer handle is non-null exactly while a retry timer *)
(* is scheduled and has not fired: after the timer has fired the handle is *)
(* null again and does not block the next scheduleReconnect().             *)
C25_HandleHeldOnlyWhilePending ==
  (reconnectTimeout # Null) <=> (\E t \in timers : t.id = reconnectTimeout)

(* C26: isConnectedToServer() returns true only while the service holds a  *)
(* socket and that socket is open, so after disconnect() it is false until *)
(* a socket created by a later connect() opens.                            *)
C26_ConnectedMeansOpenSocket ==
  isConnectedToServer(Service) => (ws # Null /\ readyState[ws] = "OPEN")

----------------------------------------------------------------------------
(* A task that delivered the open, error or close callback of a socket     *)
(* that is not the socket the service holds.                               *)
LateCallback ==
  /\ readyState' # readyState
  /\ \/ /\ last'.op = "open"
        /\ ws # Null => (readyState[ws] = "OPEN" \/ readyState'[ws'] # "OPEN")
     \/ /\ last'.op \in {"close", "fail"}
        /\ ws # Null => (readyState[ws] = "CLOSED"
                         \/ readyState'[ws'] # "CLOSED")

(* C27: the open, error and close callbacks of a socket that disconnect()  *)
(* has dropped or a later connect() has superseded leave isConnecting,     *)
(* isConnected and reconnectAttempts as they are and schedule no           *)
(* reconnect.                                                              *)
C27_LateCallbacksChangeNothing ==
  [][LateCallback => /\ isConnecting' = isConnecting
                     /\ isConnected' = isConnected
                     /\ reconnectAttempts' = reconnectAttempts
                     /\ timers' = timers
                     /\ last'.scheduled = 0]_vars

----------------------------------------------------------------------------
(* The sockets of the component that are connecting or open.               *)
AssistantLive ==
  {s \in Sockets : uiSockets[s].readyState \in {"CONNECTING", "OPEN"}}

(* C28: the Assistant component holds at most one WebSocket that is        *)
(* connecting or open at any time, across transport closes, the 3-second   *)
(* reconnect timers and the re-runs of the connection effect.              *)
C28_AssistantHoldsOneSocket == Cardinality(AssistantLive) <= 1

(* C29: after the connection effect was cleaned up for the unmount, no     *)
(* step creates a WebSocket: no reconnect timer of the component opens a   *)
(* new connection.                                                         *)
C29_NoSocketAfterUnmount ==
  [][phase = "unmounted"
       => \A s \in Sockets : uiSockets'[s].readyState = "CONNECTING"
                                => uiSockets[s].readyState = "CONNECTING"]_vars

----------------------------------------------------------------------------
(* The chat grew by one message and kept the messages it had.              *)
Appended ==
  /\ Len(messages') = Len(messages) + 1
  /\ SubSeq(messages', 1, Len(messages)) = messages

(* C30: handleSend does nothing while the input is blank or a request is   *)
(* in flight; an accepted send appends the user message and sets           *)
(* isLoading; the settling of the request appends exactly one assistant    *)
(* message (result, failure reported by the API, or fallback) and sets     *)
(* isLoading to false; no other step appends a message or changes          *)
(* isLoading; and a request in flight is eventually settled.               *)
C30_SendGetsExactlyOneReply ==
  /\ [][/\ (uiLast'.op = "blank" \/ (uiLast'.op = "send" /\ isLoading))
            => (messages' = messages /\ isLoading' = isLoading)
        /\ (uiLast'.op = "send" /\ ~isLoading)
            => /\ Appended
               /\ messages'[Len(messages')].isUser
               /\ isLoading'
        /\ (uiLast'.op = "response" /\ isLoading)
            => /\ Appended
               /\ ~messages'[Len(messages')].isUser
               /\ messages'[Len(messages')].text
                    \in {"result", "failure", "fallback"}
               /\ ~isLoading'
        /\ (Len(messages') # Len(messages) \/ isLoading' # isLoading)
            => uiLast'.op \in {"send", "response"}]_vars
  /\ (isLoading ~> ~isLoading)

(* A request was rejected, or resolved without data: the fallback message  *)
(* is the last of the chat and isLoading is false again.                   *)
C30_FallbackAfterException ==
  /\ uiLast.op = "response"
  /\ ~isLoading
  /\ Len(messages) = 2
  /\ messages[1].isUser
  /\ messages[2].text = "fallback"

====
